---- MODULE Spec2Model ----
(***************************************************************************)
(* A model of taahAI's single-page chat client (src/src/App.js): the       *)
(* session identifier generator, the sendMessage state machine with its    *)
(* fetch call, and the handlers that drive it.                             *)
(*                                                                         *)
(* A JavaScript string is a sequence of characters (one-character TLA+     *)
(* strings); a literal of the source that the model never looks inside is  *)
(* kept as one element.  Concatenation is \o.                              *)
(***************************************************************************)
EXTENDS Integers, Sequences, FiniteSets, TLC

\* The number of accepted sends a run of the model may make.
MaxTurns == 2

(***************************************************************************)
(* Strings                                                                 *)
(***************************************************************************)

\* The characters String.prototype.trim removes (those the model types).
WhiteSpace == {" ", "\n", "\t"}

RECURSIVE trimStart(_)
trimStart(s) ==
    IF s # <<>> /\ Head(s) \in WhiteSpace THEN trimStart(Tail(s)) ELSE s

RECURSIVE trimEnd(_)
trimEnd(s) ==
    IF s # <<>> /\ s[Len(s)] \in WhiteSpace
    THEN trimEnd(SubSeq(s, 1, Len(s) - 1))
    ELSE s

trim(s) == trimEnd(trimStart(s))

\* s.slice(from, to) for 0 <= from <= to <= s.length
slice(s, from, to) == SubSeq(s, from + 1, to)

RECURSIVE padStart(_, _, _)
padStart(s, len, c) == IF Len(s) >= len THEN s ELSE padStart(<<c>> \o s, len, c)

(***************************************************************************)
(* The session identifier (App.js 17-37)                                   *)
(***************************************************************************)

ByteCount == 16
ByteRange == 256

RECURSIVE BitAnd(_, _)
BitAnd(a, b) ==
    IF a = 0 \/ b = 0 THEN 0
    ELSE (a % 2) * (b % 2) + 2 * BitAnd(a \div 2, b \div 2)

RECURSIVE BitOr(_, _)
BitOr(a, b) ==
    IF a = 0 THEN b
    ELSE IF b = 0 THEN a
    ELSE (IF a % 2 = 1 \/ b % 2 = 1 THEN 1 ELSE 0) + 2 * BitOr(a \div 2, b \div 2)

HexDigits == <<"0", "1", "2", "3", "4", "5", "6", "7",
               "8", "9", "a", "b", "c", "d", "e", "f">>

\* n.toString(16) for n >= 0
RECURSIVE toString16(_)
toString16(n) ==
    IF n < 16 THEN <<HexDigits[n + 1]>>
    ELSE toString16(n \div 16) \o <<HexDigits[(n % 16) + 1]>>

toHex(n) == padStart(toString16(n), 2, "0")

\* bytes[6] = (bytes[6] & 0x0f) | 0x40
\* (faulty variant: the high nibble is masked with 0xf0 kept, the version not forced)
setVersionKeepsHigh(b) == [b EXCEPT ![6] = BitOr(b[6], 64)]
setVersion(b) == [b EXCEPT ![6] = BitOr(BitAnd(b[6], 15), 64)]

\* bytes[8] = (bytes[8] & 0x3f) | 0x80
setVariant(b) == [b EXCEPT ![8] = BitOr(BitAnd(b[8], 63), 128)]

\* Array.from(bytes, toHex).join("")
RECURSIVE hexFrom(_, _)
hexFrom(b, i) == IF i >= ByteCount THEN <<>> ELSE toHex(b[i]) \o hexFrom(b, i + 1)

\* the template literal of line 36
formatUuid(b) ==
    LET hex == hexFrom(b, 0)
    IN  slice(hex, 0, 8) \o <<"-">> \o slice(hex, 8, 12) \o <<"-">>
        \o slice(hex, 12, 16) \o <<"-">> \o slice(hex, 16, 20) \o <<"-">>
        \o slice(hex, 20, Len(hex))

\* new Uint8Array(16)
zeroBytes == [i \in 0..(ByteCount - 1) |-> 0]

\* The random inputs: every value of bytes 6 and 8 (the two the generator
\* rewrites) against a few values of the other, the rest spread from a seed.
ByteSeeds == {0, 1, 15, 17, 255}
EdgeBytes == {0, 15, 16, 64, 128, 255}
randomVector(seed, b6, b8) ==
    [i \in 0..(ByteCount - 1) |->
        IF i = 6 THEN b6 ELSE IF i = 8 THEN b8 ELSE (seed * (i + 1)) % ByteRange]
RandomVectors ==
    {randomVector(s, b6, b8) : s \in ByteSeeds, b6 \in 0..(ByteRange - 1), b8 \in EdgeBytes}
    \cup
    {randomVector(s, b6, b8) : s \in ByteSeeds, b6 \in EdgeBytes, b8 \in 0..(ByteRange - 1)}

RandomSources == {"randomUUID", "getRandomValues", "Math.random"}

VARIABLES
    source,     \* which random source the page offers
    gen,        \* the generator's position
    bytes,      \* the Uint8Array of line 24
    sessionId   \* the memoised identifier

idVars == <<source, gen, bytes, sessionId>>

(***************************************************************************)
(* JSON (the platform's JSON.stringify, JSON.parse and response.json)      *)
(***************************************************************************)

\* A JavaScript value that is a string or undefined.
Undefined == [def |-> FALSE, s |-> <<>>]
Str(s) == [def |-> TRUE, s |-> s]

\* JSON values.  A number keeps its literal; an object keeps its members in
\* order, each [k, val] with k a property name.
JString(s) == [t |-> "string", s |-> s, items |-> <<>>]
JNumber(lit) == [t |-> "number", s |-> <<lit>>, items |-> <<>>]
JLiteral(lit) == [t |-> lit, s |-> <<lit>>, items |-> <<>>]
JArray(items) == [t |-> "array", s |-> <<>>, items |-> items]
JObject(members) == [t |-> "object", s |-> <<>>, items |-> members]
Member(k, v) == [k |-> k, val |-> v]

\* the escapes JSON.stringify writes inside a string literal
escapeChar(c) ==
    CASE c = "\"" -> <<"\\", "\"">>
      [] c = "\\" -> <<"\\", "\\">>
      [] c = "\n" -> <<"\\", "n">>
      [] c = "\t" -> <<"\\", "t">>
      [] OTHER -> <<c>>

RECURSIVE quoteChars(_)
quoteChars(s) == IF s = <<>> THEN <<>> ELSE escapeChar(Head(s)) \o quoteChars(Tail(s))

quote(s) == <<"\"">> \o quoteChars(s) \o <<"\"">>

RECURSIVE stringify(_)
RECURSIVE stringifyItems(_, _)
\* the elements (or members) from the i-th on, comma-separated
stringifyItems(v, i) ==
    IF i > Len(v.items) THEN <<>>
    ELSE (IF i > 1 THEN <<",">> ELSE <<>>)
         \o (IF v.t = "object"
             THEN <<"\"", v.items[i].k, "\"", ":">> \o stringify(v.items[i].val)
             ELSE stringify(v.items[i]))
         \o stringifyItems(v, i + 1)

\* JSON.stringify(v)
stringify(v) ==
    CASE v.t = "string" -> quote(v.s)
      [] v.t = "array" -> <<"[">> \o stringifyItems(v, 1) \o <<"]">>
      [] v.t = "object" -> <<"{">> \o stringifyItems(v, 1) \o <<"}">>
      [] OTHER -> v.s

\* The reply strings and payload shapes the modelled backend answers with.
Hi == <<"h", "i">>
Yo == <<"y", "\n", "o">>
OutputHi == JObject(<<Member("output", JString(Hi))>>)
NestedThenReply ==
    JObject(<<Member("output", JObject(<<Member("x", JNumber("1"))>>)),
              Member("reply", JString(Yo))>>)
FooOnly == JObject(<<Member("foo", JString(Hi))>>)
ResultBeforeText ==
    JObject(<<Member("result", JString(Yo)), Member("text", JString(Hi))>>)
JsonValues ==
    { JString(Hi), JString(<<>>), JNumber("5"), JLiteral("null"), JLiteral("false"),
      JArray(<<>>), JArray(<<OutputHi, JString(Yo)>>),
      JArray(<<JNumber("5"), JString(Yo)>>),
      OutputHi, NestedThenReply, FooOnly, ResultBeforeText, JObject(<<>>) }

\* JSON white space outside string literals carries no meaning.
RECURSIVE stripInsignificant(_, _)
stripInsignificant(s, inString) ==
    IF s = <<>> THEN <<>>
    ELSE IF inString
    THEN IF Head(s) = "\\" /\ Len(s) >= 2
         THEN <<s[1], s[2]>> \o stripInsignificant(Tail(Tail(s)), TRUE)
         ELSE <<Head(s)>> \o stripInsignificant(Tail(s), Head(s) # "\"")
    ELSE IF Head(s) \in {" ", "\n", "\t", "\r"}
         THEN stripInsignificant(Tail(s), FALSE)
         ELSE <<Head(s)>> \o stripInsignificant(Tail(s), Head(s) = "\"")

\* JSON.parse(text): the value the text writes, or a SyntaxError.  Over the
\* values of JsonValues, parsing is the inverse of stringify up to white space.
SyntaxErrorMessage == <<"Unexpected token">>
Wire == {<<stringify(v), v>> : v \in JsonValues}
parseStripped(t) ==
    IF \E w \in Wire : w[1] = t
    THEN [ok |-> TRUE, value |-> (CHOOSE w \in Wire : w[1] = t)[2], message |-> <<>>]
    ELSE [ok |-> FALSE, value |-> JLiteral("null"), message |-> SyntaxErrorMessage]
JSONparse(text) ==
    CHOOSE p \in {parseStripped(t) : t \in {stripInsignificant(text, FALSE)}} : TRUE

(***************************************************************************)
(* The conversation (App.js 39-47, 139-144, 174-275, 481-598)              *)
(***************************************************************************)

VARIABLES
    messages,   \* useState([]): the conversation
    input,      \* useState(""): the input box
    loading,    \* useState(false)
    errorText,  \* useState("")
    view,       \* the state values of the last committed render: what the
                \* handlers' closures and the rendered elements see
    calls,      \* the sendMessage invocations suspended at an await
    last        \* history: the kind of the step taken last, and the text a
                \* submit was called with

reactVars == <<messages, input, loading, errorText, calls>>
engineVars == <<messages, input, loading, errorText, view, calls, last>>

\* extractText and renderMarkdown taken on their own
VARIABLES
    data,             \* the argument extractText is called with
    extracted,        \* what that call returned, once it has returned
    markedReadyRef,   \* useRef(false), line 52
    purifyReadyRef,   \* useRef(false), line 53
    scripts,          \* the two script elements of lines 62-94
    window,           \* which of window.marked and window.DOMPurify exist
    injected          \* the last call of renderMarkdown: its argument, the
                      \* __html it returned for dangerouslySetInnerHTML, and
                      \* what the call found ready

extractVars == <<data, extracted>>
renderVars == <<markedReadyRef, purifyReadyRef, scripts, window, injected>>
sideVars == <<data, extracted, markedReadyRef, purifyReadyRef, scripts, window, injected>>
vars == <<source, gen, bytes, sessionId, messages, input, loading, errorText, view, calls, last,
          data, extracted, markedReadyRef, purifyReadyRef, scripts, window, injected>>

Step(op) == [op |-> op, text |-> <<>>]
Message(role, content) == [role |-> role, content |-> content]

\* the React state as one record
store == [messages |-> messages, input |-> input, loading |-> loading,
          errorText |-> errorText, calls |-> calls]

\* What the textarea can come to hold, and the suggested prompts (two of the
\* nine of lines 109-137, each kept whole).
DraftTexts == {<<>>, <<" ", "\n">>, <<"a">>, <<" ", "a", "\t">>, <<"a", " ", "b">>}
suggestedPrompts ==
    { <<"Tell me about yourself and your background.">>,
      <<"What are your key technical skills?">> }

\* The keydown events of the textarea: a key, alone or with one modifier
\* held, and Enter with Shift and Ctrl held.
Modifiers == {"shiftKey", "ctrlKey", "altKey", "metaKey"}
KeyEvent(key, held) ==
    [key |-> key, shiftKey |-> "shiftKey" \in held, ctrlKey |-> "ctrlKey" \in held,
     altKey |-> "altKey" \in held, metaKey |-> "metaKey" \in held]
KeyEvents ==
    {KeyEvent(key, {}) : key \in {"Enter", "a"}}
    \cup {KeyEvent(key, {m}) : key \in {"Enter", "a"}, m \in Modifiers}
    \cup {KeyEvent("Enter", {"shiftKey", "ctrlKey"})}

\* What fetch settles with: a rejection, or a Response and what reading its
\* body will give.
NoResult ==
    [kind |-> "none", message |-> <<>>, status |-> 0, statusText |-> <<>>,
     contentType |-> <<>>, body |-> <<>>, bodyFails |-> FALSE]
Rejected(message) == [NoResult EXCEPT !.kind = "rejected", !.message = message]
Response(status, statusText, contentType, body) ==
    [NoResult EXCEPT !.kind = "response", !.status = status,
                     !.statusText = statusText, !.contentType = contentType,
                     !.body = body]
TypeJson == <<"application/json">>
TypeJsonCharset == <<"application/json", ";", " ", "charset=utf-8">>
TypePlain == <<"text/plain">>
NoType == <<>>
FetchResults ==
    { Rejected(<<"Failed to fetch">>),
      Response(500, <<"Internal Server Error">>, TypeJson, stringify(OutputHi)),
      Response(300, <<>>, TypePlain, Hi),
      [Response(200, <<"OK">>, TypeJson, stringify(OutputHi)) EXCEPT
          !.bodyFails = TRUE, !.message = <<"Failed to fetch">>],
      Response(200, <<"OK">>, TypeJson, stringify(OutputHi)),
      Response(200, <<"OK">>, TypeJson, stringify(FooOnly)),
      Response(200, <<"OK">>, TypeJson, <<"{">>),
      Response(299, <<>>, TypeJsonCharset, <<" ">> \o stringify(JArray(<<OutputHi, JString(Yo)>>))),
      Response(200, <<"OK">>, TypePlain, stringify(ResultBeforeText)),
      Response(200, <<"OK">>, TypePlain, <<" ">> \o stringify(FooOnly) \o <<"\n">>),
      Response(200, <<"OK">>, NoType, Hi),
      [Response(200, <<"OK">>, TypePlain, Hi) EXCEPT
          !.bodyFails = TRUE, !.message = <<"Failed to fetch">>] }

\* response.ok
\* (faulty variant: 300 counted as a success)
okThrough300(r) == r.status >= 200 /\ r.status <= 300
ok(r) == r.status >= 200 /\ r.status <= 299

\* `${n}` for an integer n >= 0
RECURSIVE toDecimal(_)
toDecimal(n) ==
    IF n < 10 THEN <<HexDigits[n + 1]>>
    ELSE toDecimal(n \div 10) \o <<HexDigits[(n % 10) + 1]>>

\* contentType.includes("application/json"), the needle being one element
includes(s, needle) == \E i \in 1..Len(s) : s[i] = needle

\* extractText (lines 214-231)
keys == <<"output", "reply", "message", "content", "text", "result">>
\* val[k]: the member of that name, when val has one
hasMember(val, k) ==
    val.t = "object" /\ \E j \in 1..Len(val.items) : val.items[j].k = k
member(val, k) ==
    val.items[CHOOSE j \in 1..Len(val.items) :
                 /\ val.items[j].k = k
                 /\ \A h \in (j + 1)..Len(val.items) : val.items[h].k # k].val
isStringMember(val, k) == hasMember(val, k) /\ member(val, k).t = "string"
\* (faulty variant: a preferred key that holds no string is searched in turn)
RECURSIVE extractTextDeep(_)
extractTextDeep(val) ==
    IF val.t = "string" THEN Str(val.s)
    ELSE IF val.t = "array" /\ Len(val.items) > 0 THEN extractTextDeep(val.items[1])
    ELSE IF val.t \in {"object", "array"}
    THEN LET found == {i \in 1..Len(keys) :
                          /\ hasMember(val, keys[i])
                          /\ extractTextDeep(member(val, keys[i])).def}
         IN  IF found = {} THEN Undefined
             ELSE extractTextDeep(member(val, keys[CHOOSE i \in found : \A h \in found : i <= h]))
    ELSE Undefined

\* (faulty variant: the elements are searched for the first that resolves)
RECURSIVE extractTextAnyElement(_)
extractTextAnyElement(val) ==
    IF val.t = "string" THEN Str(val.s)
    ELSE IF val.t = "array" /\ Len(val.items) > 0
    THEN LET hits == {i \in 1..Len(val.items) : extractTextAnyElement(val.items[i]).def}
         IN  IF hits = {} THEN Undefined
             ELSE extractTextAnyElement(val.items[CHOOSE i \in hits : \A h \in hits : i <= h])
    ELSE IF val.t \in {"object", "array"}
    THEN LET found == {i \in 1..Len(keys) : isStringMember(val, keys[i])}
         IN  IF found = {} THEN Undefined
             ELSE Str(member(val, keys[CHOOSE i \in found : \A h \in found : i <= h]).s)
    ELSE Undefined

RECURSIVE extractText(_)
extractText(val) ==
    IF val.t = "string" THEN Str(val.s)
    ELSE IF val.t = "array" /\ Len(val.items) > 0 THEN extractText(val.items[1])
    ELSE IF val.t \in {"object", "array"}
    THEN LET found == {i \in 1..Len(keys) : isStringMember(val, keys[i])}
         IN  IF found = {} THEN Undefined
             ELSE Str(member(val, keys[CHOOSE i \in found : \A h \in found : i <= h]).s)
    ELSE Undefined

\* (faulty variant: lines 236-238 left out, so String(undefined) is appended)
markdownReplyNoDump(contentType, raw) ==
    LET parsed == JSONparse(raw)
        picked == extractText(parsed.value)
    IN  IF includes(contentType, "application/json")
        THEN IF ~parsed.ok THEN [thrown |-> TRUE, s |-> parsed.message]
             ELSE IF picked.def THEN [thrown |-> FALSE, s |-> picked.s]
             ELSE [thrown |-> FALSE, s |-> <<"undefined">>]
        ELSE IF parsed.ok /\ picked.def THEN [thrown |-> FALSE, s |-> picked.s]
             ELSE [thrown |-> FALSE, s |-> raw]

\* (faulty variant: JSON.parse of line 243 outside the inner try)
markdownReplyTextThrows(contentType, raw) ==
    LET parsed == JSONparse(raw)
        picked == extractText(parsed.value)
    IN  IF ~parsed.ok THEN [thrown |-> TRUE, s |-> parsed.message]
        ELSE IF includes(contentType, "application/json")
        THEN IF picked.def THEN [thrown |-> FALSE, s |-> picked.s]
             ELSE [thrown |-> FALSE, s |-> stringify(parsed.value)]
        ELSE IF picked.def THEN [thrown |-> FALSE, s |-> picked.s]
             ELSE [thrown |-> FALSE, s |-> raw]

\* The reply of lines 233-249 for a body read as `raw`, which parses to
\* `parsed`: a string, or the message of the error thrown.
replyFor(contentType, raw, parsed) ==
    LET picked == extractText(parsed.value)
    IN  IF includes(contentType, "application/json")
        THEN IF ~parsed.ok THEN [thrown |-> TRUE, s |-> parsed.message]
             ELSE IF picked.def THEN [thrown |-> FALSE, s |-> picked.s]
             ELSE [thrown |-> FALSE, s |-> stringify(parsed.value)]
        ELSE IF parsed.ok /\ picked.def THEN [thrown |-> FALSE, s |-> picked.s]
             ELSE [thrown |-> FALSE, s |-> raw]
markdownReply(contentType, raw) ==
    CHOOSE m \in {replyFor(contentType, raw, parsed) : parsed \in {JSONparse(raw)}} : TRUE

\* the message of the Error of line 208
requestFailed(r) ==
    <<"Request failed (">> \o toDecimal(r.status) \o <<" ">> \o r.statusText \o <<")">>

\* line 258
friendly(message) == <<"Sorry, I could not reach the API. ">> \o message

\* The request a send puts in flight.
newCall(text) ==
    [payload |-> [session |-> sessionId, message |-> text], pc |-> "fetch",
     result |-> NoResult]

\* (faulty variant: the loading check of line 178 left out)
sendMessageNoGuard(v, s, overrideText) ==
    LET textSource == IF overrideText.def THEN overrideText.s ELSE v.input
        text == trim(textSource)
        nextMessages == Append(v.messages, Message("user", text))
    IN  IF Len(text) = 0
        THEN s
        ELSE [s EXCEPT !.errorText = <<>>, !.loading = TRUE,
                       !.messages = nextMessages, !.input = <<>>,
                       !.calls = Append(@, newCall(text))]

\* (faulty variant: the length test is made on the untrimmed text)
sendMessageNoTrim(v, s, overrideText) ==
    LET textSource == IF overrideText.def THEN overrideText.s ELSE v.input
        text == trim(textSource)
        nextMessages == Append(v.messages, Message("user", text))
    IN  IF Len(textSource) = 0 \/ v.loading
        THEN s
        ELSE [s EXCEPT !.errorText = <<>>, !.loading = TRUE,
                       !.messages = nextMessages, !.input = <<>>,
                       !.calls = Append(@, newCall(text))]

\* (faulty variant: setErrorText("") of line 182 left out)
sendMessageKeepsError(v, s, overrideText) ==
    LET textSource == IF overrideText.def THEN overrideText.s ELSE v.input
        text == trim(textSource)
        nextMessages == Append(v.messages, Message("user", text))
    IN  IF Len(text) = 0 \/ v.loading
        THEN s
        ELSE [s EXCEPT !.loading = TRUE,
                       !.messages = nextMessages, !.input = <<>>,
                       !.calls = Append(@, newCall(text))]

\* (faulty variant: the user message is not added before the reply is in)
sendMessageNoUserMessage(v, s, overrideText) ==
    LET textSource == IF overrideText.def THEN overrideText.s ELSE v.input
        text == trim(textSource)
    IN  IF Len(text) = 0 \/ v.loading
        THEN s
        ELSE [s EXCEPT !.errorText = <<>>, !.loading = TRUE, !.input = <<>>,
                       !.calls = Append(@, newCall(text))]

\* (faulty variant: the log is restarted from the new message)
sendMessageDropsLog(v, s, overrideText) ==
    LET textSource == IF overrideText.def THEN overrideText.s ELSE v.input
        text == trim(textSource)
        nextMessages == <<Message("user", text)>>
    IN  IF Len(text) = 0 \/ v.loading
        THEN s
        ELSE [s EXCEPT !.errorText = <<>>, !.loading = TRUE,
                       !.messages = nextMessages, !.input = <<>>,
                       !.calls = Append(@, newCall(text))]

\* (faulty variant: an identifier is made for each request)
sendMessageFreshSession(v, s, overrideText) ==
    LET textSource == IF overrideText.def THEN overrideText.s ELSE v.input
        text == trim(textSource)
        nextMessages == Append(v.messages, Message("user", text))
        fresh == formatUuid(setVariant(setVersion(randomVector(Len(v.messages), 0, 0))))
    IN  IF Len(text) = 0 \/ v.loading
        THEN s
        ELSE [s EXCEPT !.errorText = <<>>, !.loading = TRUE,
                       !.messages = nextMessages, !.input = <<>>,
                       !.calls = Append(@, [newCall(text) EXCEPT !.payload.session = fresh])]

\* sendMessage to its first await (lines 174-203), called from the render
\* whose closure holds v, on the React state s.
sendMessage(v, s, overrideText) ==
    LET textSource == IF overrideText.def THEN overrideText.s ELSE v.input
        text == trim(textSource)
        nextMessages == Append(v.messages, Message("user", text))
    IN  IF Len(text) = 0 \/ v.loading
        THEN s
        ELSE [s EXCEPT !.errorText = <<>>,
                       !.loading = TRUE,
                       !.messages = nextMessages,
                       !.input = <<>>,
                       !.calls = Append(@, newCall(text))]

\* lines 140-144
quickSend(v, s, text) ==
    IF v.loading THEN s ELSE sendMessage(v, [s EXCEPT !.input = text], Str(text))

\* (faulty variant: every Enter sends, Shift or not)
onKeyDownAnyEnter(v, s, e) ==
    IF e.key = "Enter" THEN sendMessage(v, s, Undefined) ELSE s

\* lines 270-275
onKeyDown(v, s, e) ==
    IF e.key = "Enter" /\ ~e.shiftKey THEN sendMessage(v, s, Undefined) ELSE s

removeAt(q, i) == SubSeq(q, 1, i - 1) \o SubSeq(q, i + 1, Len(q))

\* (faulty variant: the failure is shown in the error line only)
catchFinallyNoMessage(s, i, message) ==
    [s EXCEPT !.errorText = friendly(message),
              !.loading = FALSE,
              !.calls = removeAt(@, i)]

\* (faulty variant: setLoading(false) on the success path only, no finally)
catchFinallyStaysLoading(s, i, message) ==
    [s EXCEPT !.messages = Append(@, Message("assistant", friendly(message))),
              !.errorText = friendly(message),
              !.calls = removeAt(@, i)]

\* catch and finally (lines 256-266) of the i-th suspended call
catchFinally(s, i, message) ==
    [s EXCEPT !.messages = Append(@, Message("assistant", friendly(message))),
              !.errorText = friendly(message),
              !.loading = FALSE,
              !.calls = removeAt(@, i)]

\* lines 251-255 and finally
appendReply(s, i, reply) ==
    [s EXCEPT !.messages = Append(@, Message("assistant", reply)),
              !.loading = FALSE,
              !.calls = removeAt(@, i)]

\* The state updates of a handler or continuation reach the React state.
setState(s) ==
    /\ messages' = s.messages
    /\ input' = s.input
    /\ loading' = s.loading
    /\ errorText' = s.errorText
    /\ calls' = s.calls

rendered(s) == [messages |-> s.messages, input |-> s.input, loading |-> s.loading,
                errorText |-> s.errorText]

\* A handler of a click, key or input event: React renders the updates it
\* made before the browser delivers another event.  Updates made by a
\* continuation and not yet rendered stay out of that render.
handled(s) ==
    /\ setState(s)
    /\ view' = [f \in DOMAIN view |-> IF s[f] # store[f] THEN s[f] ELSE view[f]]

\* A continuation after an await: its updates are rendered in a later task.
resumed(s) ==
    /\ setState(s)
    /\ UNCHANGED view

\* Events reach the page until the last turn's reply is in.
Interactive == Len(messages) < 2 * MaxTurns

(***************************************************************************)
(* Actions                                                                 *)
(***************************************************************************)

\* (faulty variant: typing also clears the error line)
changeClearsError(value) ==
    /\ Interactive
    /\ value # view.input
    /\ handled([store EXCEPT !.input = value, !.errorText = <<>>])
    /\ last' = Step("other")
    /\ UNCHANGED <<idVars, sideVars>>

\* textarea onChange (lines 512, 578)
change(value) ==
    /\ Interactive
    /\ value # view.input
    /\ handled([store EXCEPT !.input = value])
    /\ last' = Step("other")
    /\ UNCHANGED <<idVars, sideVars>>

\* textarea onKeyDown (lines 513, 579)
keyDown(e) ==
    /\ Interactive
    /\ handled(onKeyDown(view, store, e))
    /\ last' = IF e.key # "Enter" THEN Step("other")
               ELSE IF e.shiftKey THEN Step("newline") ELSE Step("submit")
    /\ UNCHANGED <<idVars, sideVars>>

\* the send button (lines 519-520, 585-586)
sendClick ==
    /\ Interactive
    /\ ~(view.loading \/ Len(trim(view.input)) = 0)
    /\ handled(sendMessage(view, store, Undefined))
    /\ last' = Step("submit")
    /\ UNCHANGED <<idVars, sideVars>>

\* a suggested prompt, shown while the conversation is empty (lines 481-497)
promptClick(it) ==
    /\ Interactive
    /\ Len(view.messages) = 0
    /\ handled(quickSend(view, store, it))
    /\ last' = [op |-> "quick", text |-> it]
    /\ UNCHANGED <<idVars, sideVars>>

promptKeyDown(it, key) ==
    /\ Interactive
    /\ Len(view.messages) = 0
    /\ IF key = "Enter" \/ key = " "
       THEN handled(quickSend(view, store, it)) /\ last' = [op |-> "quick", text |-> it]
       ELSE UNCHANGED <<messages, input, loading, errorText, view, calls>> /\ last' = Step("other")
    /\ UNCHANGED <<idVars, sideVars>>

\* the fetch of line 197 settles
fetchSettles(i, r) ==
    /\ calls[i].pc = "fetch"
    /\ calls' = [calls EXCEPT ![i].pc = "fetched", ![i].result = r]
    /\ UNCHANGED <<messages, input, loading, errorText, view>>
    /\ last' = Step("other")
    /\ UNCHANGED <<idVars, sideVars>>

\* lines 197-212: sendMessage resumes with what fetch settled with
afterFetch(i) ==
    /\ calls[i].pc = "fetched"
    /\ LET r == calls[i].result
       IN  IF r.kind = "rejected" THEN resumed(catchFinally(store, i, r.message))
           ELSE IF ~ok(r) THEN resumed(catchFinally(store, i, requestFailed(r)))
           ELSE resumed([store EXCEPT !.calls[i].pc = "body"])
    /\ last' = IF calls[i].result.kind = "response" /\ ok(calls[i].result)
               THEN Step("other") ELSE Step("settle")
    /\ UNCHANGED <<idVars, sideVars>>

\* lines 233-266: the body has been read (or the read failed)
afterBody(i) ==
    /\ calls[i].pc = "body"
    /\ last' = Step("settle")
    /\ \E m \in {markdownReply(calls[i].result.contentType, calls[i].result.body)} :
          IF calls[i].result.bodyFails
          THEN resumed(catchFinally(store, i, calls[i].result.message))
          ELSE IF m.thrown THEN resumed(catchFinally(store, i, m.s))
          ELSE resumed(appendReply(store, i, m.s))
    /\ UNCHANGED <<idVars, sideVars>>

\* React renders the updates of a continuation
render ==
    /\ view # rendered(store)
    /\ view' = rendered(store)
    /\ UNCHANGED <<messages, input, loading, errorText, calls>>
    /\ last' = Step("other")
    /\ UNCHANGED <<idVars, sideVars>>

\* The generator of lines 18-37, step by step.  crypto.randomUUID is the
\* platform's: a version 4 identifier of random bytes.
nativeUuid ==
    /\ gen = "start" /\ source = "randomUUID"
    /\ \E b \in RandomVectors : sessionId' = formatUuid(setVariant(setVersion(b)))
    /\ gen' = "done"
    /\ UNCHANGED <<source, bytes>>
    /\ UNCHANGED <<engineVars, sideVars>>

\* window.crypto.getRandomValues(bytes)
getRandomValues ==
    /\ gen = "start" /\ source = "getRandomValues"
    /\ bytes' \in RandomVectors
    /\ gen' = "filled"
    /\ UNCHANGED <<source, sessionId>>
    /\ UNCHANGED <<engineVars, sideVars>>

\* the loop of lines 28-30: Math.random() is in [0, 1), so each
\* Math.floor(Math.random() * 256) is one of 0..255
mathRandomLoop ==
    /\ gen = "start" /\ source = "Math.random"
    /\ bytes' \in RandomVectors
    /\ gen' = "filled"
    /\ UNCHANGED <<source, sessionId>>
    /\ UNCHANGED <<engineVars, sideVars>>

stampVersion ==
    /\ gen = "filled"
    /\ bytes' = setVersion(bytes)
    /\ gen' = "versioned"
    /\ UNCHANGED <<source, sessionId>>
    /\ UNCHANGED <<engineVars, sideVars>>

stampVariant ==
    /\ gen = "versioned"
    /\ bytes' = setVariant(bytes)
    /\ gen' = "stamped"
    /\ UNCHANGED <<source, sessionId>>
    /\ UNCHANGED <<engineVars, sideVars>>

format ==
    /\ gen = "stamped"
    /\ sessionId' = formatUuid(bytes)
    /\ gen' = "done"
    /\ UNCHANGED <<source, bytes>>
    /\ UNCHANGED <<engineVars, sideVars>>

(***************************************************************************)
(* renderMarkdown (App.js 52-53, 62-94, 146-171, 553-556)                  *)
(*                                                                         *)
(* Markup is a sequence of single characters and whole words, so that a    *)
(* tag is "<", its name, its attributes and ">".                           *)
(***************************************************************************)

\* s.replaceAll(c, rep) for a one-character c
RECURSIVE replaceAll(_, _, _)
replaceAll(s, c, rep) ==
    IF s = <<>> THEN <<>>
    ELSE (IF Head(s) = c THEN rep ELSE <<Head(s)>>) \o replaceAll(Tail(s), c, rep)

AmpEntity == <<"&", "a", "m", "p", ";">>
LtEntity == <<"&", "l", "t", ";">>
GtEntity == <<"&", "g", "t", ";">>
QuotEntity == <<"&", "q", "u", "o", "t", ";">>
AposEntity == <<"&", "#", "0", "3", "9", ";">>

\* (faulty variant: "&" is replaced last, so the entities are escaped again)
escapeHtmlAmpLast(raw) ==
    replaceAll(
      replaceAll(
        replaceAll(
          replaceAll(
            replaceAll(raw, "<", LtEntity),
            ">", GtEntity),
          "\"", QuotEntity),
        "'", AposEntity),
      "&", AmpEntity)

\* escapeHtml (lines 149-155)
escapeHtml(raw) ==
    replaceAll(
      replaceAll(
        replaceAll(
          replaceAll(
            replaceAll(raw, "&", AmpEntity),
            "<", LtEntity),
          ">", GtEntity),
        "\"", QuotEntity),
      "'", AposEntity)

\* `<pre>\n${escapeHtml(mdText)}\n</pre>` (lines 160 and 169)
preformatted(mdText) ==
    <<"<", "pre", ">", "\n">> \o escapeHtml(mdText) \o <<"\n", "<", "/", "pre", ">">>

\* Tags and entities as the two libraries read them.
TagNames == {"script", "img", "b", "pre", "p", "br"}
EventAttributes == {"onerror=alert(1)"}
MarkedAposEntity == <<"&", "#", "3", "9", ";">>
Entities == {AmpEntity, LtEntity, GtEntity, QuotEntity, AposEntity, MarkedAposEntity}
startsWith(s, prefix) ==
    Len(s) >= Len(prefix) /\ SubSeq(s, 1, Len(prefix)) = prefix
isEntityAt(s) == \E e \in Entities : startsWith(s, e)
entityAt(s) == CHOOSE e \in Entities : startsWith(s, e)
isTagAt(s) ==
    /\ Len(s) >= 3
    /\ s[1] = "<"
    /\ s[2] \in TagNames \/ (s[2] = "/" /\ s[3] \in TagNames)
    /\ \E j \in 1..Len(s) : s[j] = ">"
tagEnd(s) == CHOOSE j \in 1..Len(s) : s[j] = ">" /\ \A h \in 1..(j - 1) : s[h] # ">"
tagName(s) == IF s[2] = "/" THEN s[3] ELSE s[2]
dropFirst(s, n) == SubSeq(s, n + 1, Len(s))

\* window.marked.parse(mdText) with { breaks: true, gfm: true }, for one
\* paragraph of text: raw HTML passes through as written (marked does not
\* sanitize), other markup characters are escaped, a line break is <br>.
escapeMd(c) ==
    CASE c = "&" -> AmpEntity
      [] c = "<" -> LtEntity
      [] c = ">" -> GtEntity
      [] c = "\"" -> QuotEntity
      [] c = "'" -> MarkedAposEntity
      [] c = "\n" -> <<"<", "br", ">">>
      [] OTHER -> <<c>>
RECURSIVE inlineMd(_)
inlineMd(s) ==
    IF s = <<>> THEN <<>>
    ELSE IF isTagAt(s)
    THEN SubSeq(s, 1, tagEnd(s)) \o inlineMd(dropFirst(s, tagEnd(s)))
    ELSE IF isEntityAt(s)
    THEN entityAt(s) \o inlineMd(dropFirst(s, Len(entityAt(s))))
    ELSE escapeMd(Head(s)) \o inlineMd(Tail(s))
markedParse(mdText) ==
    IF mdText = <<>> THEN <<>>
    ELSE IF isTagAt(mdText) /\ mdText[2] = "script" THEN mdText \* an HTML block
    ELSE <<"<", "p", ">">> \o inlineMd(mdText) \o <<"<", "/", "p", ">", "\n">>

\* window.DOMPurify.sanitize(dirty), default configuration, for well-nested
\* markup: the markup is parsed, script elements and event-handler
\* attributes are removed, and what is left is serialised again (the line
\* break right after <pre> is not part of the parsed text; quotes in text
\* are written as themselves).
ScriptClose == <<"<", "/", "script", ">">>
RECURSIVE afterScript(_)
afterScript(s) ==
    IF s = <<>> THEN <<>>
    ELSE IF startsWith(s, ScriptClose) THEN dropFirst(s, Len(ScriptClose))
    ELSE afterScript(Tail(s))
cleanTag(tag) == SelectSeq(tag, LAMBDA t : t \notin EventAttributes /\ t # " ")
RECURSIVE sanitize(_)
sanitize(s) ==
    IF s = <<>> THEN <<>>
    ELSE IF isTagAt(s)
    THEN IF s[2] = "script" THEN sanitize(afterScript(s))
         ELSE IF tagName(s) = "script" THEN sanitize(dropFirst(s, tagEnd(s)))
         ELSE LET rest == dropFirst(s, tagEnd(s))
              IN  cleanTag(SubSeq(s, 1, tagEnd(s)))
                  \o sanitize(IF s[2] = "pre" /\ rest # <<>> /\ Head(rest) = "\n"
                              THEN Tail(rest) ELSE rest)
    ELSE IF isEntityAt(s)
    THEN (IF entityAt(s) = QuotEntity THEN <<"\"">>
          ELSE IF entityAt(s) \in {AposEntity, MarkedAposEntity} THEN <<"'">>
          ELSE entityAt(s))
         \o sanitize(dropFirst(s, Len(entityAt(s))))
    ELSE (CASE Head(s) = "&" -> AmpEntity
            [] Head(s) = "<" -> LtEntity
            [] Head(s) = ">" -> GtEntity
            [] OTHER -> <<Head(s)>>)
         \o sanitize(Tail(s))

\* What a library call does: returns, or throws.
Throws == {"none", "marked", "DOMPurify"}

\* (faulty variant: the sanitizer is applied to the fallback only)
renderMarkdownTrustsMarked(mdText, throws) ==
    LET useMarked == markedReadyRef /\ window.marked
        usePurify == purifyReadyRef /\ window.DOMPurify
    IN  IF (useMarked /\ throws = "marked") \/ (usePurify /\ throws = "DOMPurify")
        THEN preformatted(mdText)
        ELSE IF useMarked THEN markedParse(mdText)
        ELSE IF usePurify THEN sanitize(preformatted(mdText))
        ELSE preformatted(mdText)

\* (faulty variant: no try/catch, the error's text is what comes out)
renderMarkdownNoCatch(mdText, throws) ==
    LET useMarked == markedReadyRef /\ window.marked
        usePurify == purifyReadyRef /\ window.DOMPurify
        parsed == IF useMarked THEN markedParse(mdText) ELSE preformatted(mdText)
    IN  IF (useMarked /\ throws = "marked") \/ (usePurify /\ throws = "DOMPurify")
        THEN <<"Uncaught Error">>
        ELSE IF usePurify THEN sanitize(parsed) ELSE parsed

\* renderMarkdown (lines 147-171): the __html it returns
renderMarkdown(mdText, throws) ==
    LET useMarked == markedReadyRef /\ window.marked
        usePurify == purifyReadyRef /\ window.DOMPurify
        parsed == IF useMarked THEN markedParse(mdText) ELSE preformatted(mdText)
    IN  IF (useMarked /\ throws = "marked") \/ (usePurify /\ throws = "DOMPurify")
        THEN preformatted(mdText)
        ELSE IF usePurify THEN sanitize(parsed) ELSE parsed

\* The message contents the display is given.
RenderTexts ==
    { <<>>,
      <<"hi">>,
      <<"a", "&", "b">>,
      <<"<", "script", ">", "alert(1)", "<", "/", "script", ">">>,
      <<"<", "img", " ", "onerror=alert(1)", ">">>,
      <<"<", "b", ">", "hi", "<", "/", "b", ">">>,
      <<"\"", "hi", "'">>,
      <<"1", " ", "<", " ", "2", " ", ">", "\n", "3">>,
      <<"&", "l", "t", ";">> }
Libraries == {"marked", "DOMPurify"}
NothingInjected ==
    [called |-> FALSE, mdText |-> <<>>, html |-> <<>>,
     marked |-> FALSE, DOMPurify |-> FALSE, threw |-> FALSE]

\* lines 64-76: a script added by addScript is fetched and runs; it may or
\* may not define its global
scriptExecutes(lib, defines) ==
    /\ scripts[lib] = "added"
    /\ scripts' = [scripts EXCEPT ![lib] = "executed"]
    /\ window' = [window EXCEPT ![lib] = defines]
    /\ UNCHANGED <<markedReadyRef, purifyReadyRef, injected, extractVars, idVars, engineVars>>

\* the script cannot be fetched: no load event
scriptFails(lib) ==
    /\ scripts[lib] = "added"
    /\ scripts' = [scripts EXCEPT ![lib] = "failed"]
    /\ UNCHANGED <<window, markedReadyRef, purifyReadyRef, injected, extractVars, idVars, engineVars>>

\* lines 79-85: the load listener of marked
markedLoad ==
    /\ scripts["marked"] = "executed"
    /\ scripts' = [scripts EXCEPT !["marked"] = "loaded"]
    /\ markedReadyRef' = TRUE
    /\ UNCHANGED <<window, purifyReadyRef, injected, extractVars, idVars, engineVars>>

\* lines 88-93: the load listener of DOMPurify
purifyLoad ==
    /\ scripts["DOMPurify"] = "executed"
    /\ scripts' = [scripts EXCEPT !["DOMPurify"] = "loaded"]
    /\ purifyReadyRef' = TRUE
    /\ UNCHANGED <<window, markedReadyRef, injected, extractVars, idVars, engineVars>>

\* lines 553-556: a message is displayed
display(mdText, throws) ==
    /\ injected' =
          [called |-> TRUE, mdText |-> mdText, html |-> renderMarkdown(mdText, throws),
           marked |-> markedReadyRef /\ window.marked,
           DOMPurify |-> purifyReadyRef /\ window.DOMPurify,
           threw |-> \/ markedReadyRef /\ window.marked /\ throws = "marked"
                     \/ purifyReadyRef /\ window.DOMPurify /\ throws = "DOMPurify"]
    /\ UNCHANGED <<markedReadyRef, purifyReadyRef, scripts, window, extractVars, idVars, engineVars>>

(***************************************************************************)
(* extractText on its own (App.js 214-231)                                 *)
(***************************************************************************)

\* The values a member or an element can hold, and the property names a
\* payload can carry: the six preferred ones and one that is not.
ExtractLeaves ==
    { JString(Hi), JString(<<>>), JNumber("5"), JLiteral("null"), JLiteral("true"),
      JArray(<<>>), JArray(<<JString(Yo)>>), OutputHi, JObject(<<>>) }
ExtractKeys == {"output", "reply", "message", "content", "text", "result", "foo"}
ExtractObjects ==
    {JObject(<<>>)}
    \cup {JObject(<<Member(k, v)>>) : k \in ExtractKeys, v \in ExtractLeaves}
    \cup {JObject(<<Member(k[1], v[1]), Member(k[2], v[2])>>) :
             k \in {kk \in ExtractKeys \X ExtractKeys : kk[1] # kk[2]},
             v \in ExtractLeaves \X ExtractLeaves}
ExtractFirsts == ExtractLeaves \cup {NestedThenReply, FooOnly, JArray(<<FooOnly, JString(Hi)>>)}
ExtractArrays ==
    {JArray(<<a>>) : a \in ExtractFirsts}
    \cup {JArray(<<a, b>>) : a \in ExtractFirsts, b \in ExtractLeaves}
ExtractInputs == ExtractLeaves \cup ExtractObjects \cup ExtractArrays

\* extractText(data) is called and returns
extractTextCall ==
    /\ extracted = <<>>
    /\ extracted' = <<extractText(data)>>
    /\ UNCHANGED <<data, renderVars, idVars, engineVars>>

(***************************************************************************)
(* Specifications                                                          *)
(***************************************************************************)

EngineInit ==
    /\ messages = <<>>
    /\ input = <<>>
    /\ loading = FALSE
    /\ errorText = <<>>
    /\ calls = <<>>
    /\ view = [messages |-> <<>>, input |-> <<>>, loading |-> FALSE, errorText |-> <<>>]
    /\ last = Step("start")

\* The generator on its own: every random input.
\* The first render, before any script has been fetched.
RenderInit ==
    /\ markedReadyRef = FALSE
    /\ purifyReadyRef = FALSE
    /\ scripts = [lib \in Libraries |-> "added"]
    /\ window = [lib \in Libraries |-> FALSE]
    /\ injected = NothingInjected

SideInit ==
    /\ data = JLiteral("null")
    /\ extracted = <<>>
    /\ RenderInit

IdInit ==
    /\ source \in RandomSources
    /\ gen = "start"
    /\ bytes = zeroBytes
    /\ sessionId = <<>>
    /\ EngineInit
    /\ SideInit

IdNext ==
    nativeUuid \/ getRandomValues \/ mathRandomLoop \/ stampVersion \/ stampVariant \/ format

IdSpec == IdInit /\ [][IdNext]_vars

\* The page after its first render: the identifier is memoised.
SessionStarts == { <<"getRandomValues", randomVector(17, 255, 0)>> }

Init ==
    /\ \E st \in SessionStarts :
          /\ source = st[1]
          /\ bytes = setVariant(setVersion(st[2]))
          /\ sessionId = formatUuid(bytes)
    /\ gen = "done"
    /\ EngineInit
    /\ SideInit

Next ==
    \/ \E value \in DraftTexts : change(value)
    \/ \E e \in KeyEvents : keyDown(e)
    \/ sendClick
    \/ \E it \in suggestedPrompts : promptClick(it)
    \/ \E it \in suggestedPrompts, key \in {"Enter", " ", "a"} : promptKeyDown(it, key)
    \/ \E i \in 1..Len(calls), r \in FetchResults : fetchSettles(i, r)
    \/ \E i \in 1..Len(calls) : afterFetch(i)
    \/ \E i \in 1..Len(calls) : afterBody(i)
    \/ render

Spec == Init /\ [][Next]_vars

\* The page once loaded, nothing sent yet.
PageInit ==
    /\ \E st \in SessionStarts :
          /\ source = st[1]
          /\ bytes = setVariant(setVersion(st[2]))
          /\ sessionId = formatUuid(bytes)
    /\ gen = "done"
    /\ EngineInit

\* extractText on its own: every payload.
ExtractInit ==
    /\ PageInit
    /\ data \in ExtractInputs
    /\ extracted = <<>>
    /\ RenderInit
ExtractNext == extractTextCall
ExtractSpec == ExtractInit /\ [][ExtractNext]_vars

\* renderMarkdown on its own: the scripts load in any order, or not at all,
\* while messages are displayed.
RenderSpecInit ==
    /\ PageInit
    /\ data = JLiteral("null")
    /\ extracted = <<>>
    /\ RenderInit
RenderNext ==
    \/ \E lib \in Libraries, defines \in BOOLEAN : scriptExecutes(lib, defines)
    \/ \E lib \in Libraries : scriptFails(lib)
    \/ markedLoad
    \/ purifyLoad
    \/ \E mdText \in RenderTexts, throws \in Throws : display(mdText, throws)
RenderSpec == RenderSpecInit /\ [][RenderNext]_vars

\* The transport settles every call, continuations run and React renders.
Fairness ==
    /\ WF_vars(\E i \in 1..Len(calls), r \in FetchResults : fetchSettles(i, r))
    /\ WF_vars(\E i \in 1..Len(calls) : afterFetch(i))
    /\ WF_vars(\E i \in 1..Len(calls) : afterBody(i))
    /\ WF_vars(render)

FairSpec == Spec /\ Fairness

(***************************************************************************)
(* Properties                                                              *)
(***************************************************************************)

IsPrefix(p, q) == Len(p) <= Len(q) /\ SubSeq(q, 1, Len(p)) = p
ContainsSeq(q, d) == \E i \in 0..(Len(q) - Len(d)) : SubSeq(q, i + 1, i + Len(d)) = d
LastMessage == messages[Len(messages)]
CountRole(role) == Cardinality({i \in 1..Len(messages) : messages[i].role = role})
Apology == "Sorry, I could not reach the API. "
IsApology(content) == content # <<>> /\ content[1] = Apology
\* the step taken was a submit: of the draft, or of a suggested prompt
SubmitStep == last'.op \in {"submit", "quick"}
\* the text such a submit was given
SubmittedText == IF last'.op = "quick" THEN last'.text ELSE view.input
HasText(text) == \E i \in 1..Len(text) : text[i] \notin WhiteSpace

\* C1: at most one remote call is in flight in every reachable state, and a
\* submit made while a call is in flight starts no other.
C1_OneCallInFlight == Len(calls) <= 1

\* a submit of a typed, non-empty draft has just been made with a call in flight
C1_Witness ==
    /\ Len(calls) = 1
    /\ last.op = "submit"
    /\ HasText(view.input)

\* C2, as stated: every submit whose trimmed text is non-empty appends one
\* user Message holding the trimmed text at once.
C2_EverySubmitAppends ==
    [][(SubmitStep /\ HasText(SubmittedText))
          => messages' = Append(messages, Message("user", trim(SubmittedText)))]_vars

\* C2, amended: a submit whose trimmed text is non-empty, made when the
\* render that handles it shows no call pending, appends one user Message
\* holding the trimmed text at once and puts one call in flight; each call
\* that settles, in success or in failure, appends one assistant Message; no
\* other step changes the log, and the log holds one assistant Message for
\* each user Message whose call has settled.
C2_AcceptedSubmitAppends ==
    [][/\ (SubmitStep /\ HasText(SubmittedText) /\ ~view.loading)
            => /\ messages' = Append(messages, Message("user", trim(SubmittedText)))
               /\ Len(calls') = Len(calls) + 1
       /\ last' = Step("settle")
            => /\ Len(messages') = Len(messages) + 1
               /\ SubSeq(messages', 1, Len(messages)) = messages
               /\ messages'[Len(messages')].role = "assistant"
               /\ Len(calls') = Len(calls) - 1
       /\ messages' # messages => (SubmitStep \/ last' = Step("settle"))
       /\ CountRole("user")' = CountRole("assistant")' + Len(calls')]_vars

\* two submits have settled, one in success and one in failure
C2_Witness ==
    /\ last.op = "settle"
    /\ Len(messages) = 4
    /\ ~IsApology(messages[2].content)
    /\ IsApology(messages[4].content)

\* C3: a submit made while pending is true issues no request, appends
\* nothing and leaves pending, the draft and the error as they were; while
\* pending is true the log changes only by the one assistant Message of the
\* call in flight, which ends the pending state.
C3_SubmitWhilePendingIsNoOp ==
    [][/\ (SubmitStep /\ loading)
            => UNCHANGED <<messages, input, loading, errorText, calls, view>>
       /\ (loading /\ messages' # messages)
            => /\ last' = Step("settle")
               /\ Len(messages') = Len(messages) + 1
               /\ SubSeq(messages', 1, Len(messages)) = messages
               /\ messages'[Len(messages')].role = "assistant"
               /\ ~loading']_vars

\* Enter has just been pressed on a non-empty draft while a call is pending
C3_Witness ==
    /\ loading
    /\ last.op = "submit"
    /\ HasText(view.input)
    /\ Len(messages) = 1

\* C4: a submit of white space only, typed or passed, changes nothing: no
\* Message, no request, no error, and pending stays false.
C4_WhitespaceSubmitIsNoOp ==
    [][/\ (last'.op = "submit" /\ ~HasText(view.input))
            => /\ UNCHANGED <<messages, input, loading, errorText, calls, view>>
               /\ ~loading => ~loading'
       /\ \A text \in DraftTexts :
            ~HasText(text) => sendMessage(view, store, Str(text)) = store]_vars

\* Enter has just been pressed on a draft of white space, with nothing pending
C4_Witness ==
    /\ last.op = "submit"
    /\ ~loading
    /\ input # <<>>
    /\ ~HasText(input)
    /\ errorText = <<>>

\* C5: every step leaves the log before it a prefix of the log after it.
C5_LogAppendOnly == [][IsPrefix(messages, messages')]_vars

\* a second user Message has been appended after a first exchange
C5_Witness ==
    /\ Len(messages) = 3
    /\ messages[3].role = "user"
    /\ last.op \in {"submit", "quick"}

\* the call that settles in this step, as it stood before the step
Settling == calls[1]
DeclaredJson(r) == includes(r.contentType, "application/json")
\* the detail of the failure the call in flight is about to meet, if any
\* (<<>> when the step is not a failure)
NetworkFailed(c) ==
    \/ c.pc = "fetched" /\ c.result.kind = "rejected"
    \/ c.pc = "body" /\ c.result.bodyFails
BadStatus(c) ==
    /\ c.pc = "fetched" /\ c.result.kind = "response"
    /\ (c.result.status < 200 \/ c.result.status > 299)
UnparsableJson(c) ==
    /\ c.pc = "body" /\ ~c.result.bodyFails
    /\ DeclaredJson(c.result)
    /\ ~JSONparse(c.result.body).ok
Failed(c) == NetworkFailed(c) \/ BadStatus(c) \/ UnparsableJson(c)
Succeeded(c) == c.pc = "body" /\ ~Failed(c)
FailureDetail(c, content) ==
    /\ NetworkFailed(c) => ContainsSeq(content, c.result.message)
    /\ BadStatus(c) =>
          /\ ContainsSeq(content, toDecimal(c.result.status))
          /\ ContainsSeq(content, c.result.statusText)
    /\ UnparsableJson(c) => ContainsSeq(content, JSONparse(c.result.body).message)

\* C6: when the call fails (the network fails, the status is outside
\* 200-299, or a body declared JSON does not parse), the next step of the
\* call settles it: it appends one assistant Message, the apology holding
\* the failure's detail, sets lastError to that same string and pending to
\* false.
C6_FailureAppendsApology ==
    [][(calls # <<>> /\ calls' # calls /\ Failed(Settling))
          => /\ last'.op = "settle"
             /\ Len(messages') = Len(messages) + 1
             /\ SubSeq(messages', 1, Len(messages)) = messages
             /\ LastMessage'.role = "assistant"
             /\ IsApology(LastMessage'.content)
             /\ FailureDetail(Settling, LastMessage'.content)
             /\ errorText' = LastMessage'.content
             /\ ~loading']_vars

\* a response of status 300 has been answered with the apology
C6_Witness ==
    /\ last.op = "settle"
    /\ ~loading
    /\ messages # <<>>
    /\ IsApology(LastMessage.content)
    /\ ContainsSeq(LastMessage.content, <<"3", "0", "0">>)
    /\ errorText = LastMessage.content

\* the payload of a successful call: what the body parses to, or the raw
\* text itself when a body not declared JSON does not parse
Payload(c) ==
    IF JSONparse(c.result.body).ok THEN JSONparse(c.result.body).value
    ELSE JString(c.result.body)
\* the text writes the whole of value v
DumpOf(text, c) ==
    IF JSONparse(c.result.body).ok
    THEN JSONparse(text).ok /\ JSONparse(text).value = Payload(c)
    ELSE text = c.result.body

\* C7: when the call succeeds, the step that settles it appends one
\* assistant Message: the extractor's string for the payload, or, when the
\* extractor gives undefined, a text that writes the whole payload; pending
\* becomes false and lastError stays empty.
C7_SuccessAppendsExtracted ==
    [][(last'.op = "settle" /\ Succeeded(Settling))
          => /\ Len(messages') = Len(messages) + 1
             /\ SubSeq(messages', 1, Len(messages)) = messages
             /\ LastMessage'.role = "assistant"
             /\ IF extractText(Payload(Settling)).def
                THEN LastMessage'.content = extractText(Payload(Settling)).s
                ELSE DumpOf(LastMessage'.content, Settling)
             /\ ~loading'
             /\ errorText = <<>> /\ errorText' = <<>>]_vars

\* a payload with no string under a preferred key has been answered whole
C7_Witness ==
    /\ last.op = "settle"
    /\ ~loading
    /\ errorText = <<>>
    /\ messages # <<>>
    /\ LastMessage.content = stringify(FooOnly)

\* Idle: nothing pending, and rendered so
Idle == ~loading /\ ~view.loading

\* C8: pending is true exactly while a call has not settled; once the call
\* settles the engine comes back to Idle, and in Idle a submit of a
\* non-empty text is accepted.
C8_ReturnsToIdle ==
    /\ [](loading <=> calls # <<>>)
    /\ [](Idle => \A text \in DraftTexts \cup suggestedPrompts :
                    HasText(text) => sendMessage(view, store, Str(text)).loading)
    /\ (loading ~> Idle)

\* after a failure a second submit has been accepted and has settled
C8_Witness ==
    /\ Idle
    /\ Len(messages) = 4
    /\ IsApology(messages[2].content)
    /\ ~IsApology(messages[4].content)

\* C9: the identifier never changes, and every request in flight carries it.
C9_SessionNeverChanges ==
    [][/\ sessionId' = sessionId
       /\ \A i \in 1..Len(calls') : calls'[i].payload.session = sessionId]_vars

\* a second request is in flight after a first that failed
C9_Witness ==
    /\ Len(messages) = 3
    /\ IsApology(messages[2].content)
    /\ Len(calls) = 1
    /\ calls[1].payload.session = sessionId

IsHexDigit(c) == \E i \in 1..16 : HexDigits[i] = c
IsUuidV4(id) ==
    /\ Len(id) = 36
    /\ \A i \in 1..36 :
          IF i \in {9, 14, 19, 24} THEN id[i] = "-" ELSE IsHexDigit(id[i])
    /\ id[15] = "4"
    /\ id[20] \in {"8", "9", "a", "b"}

\* C10: whatever the 16 random bytes, from getRandomValues or from
\* Math.random, the identifier is 8-4-4-4-12 lower-case hex digits, the
\* third group starting with 4 and the fourth with 8, 9, a or b.
C10_UuidV4Format == gen = "done" => IsUuidV4(sessionId)

\* an identifier made from Math.random bytes, byte 6 being 0xff before
C10_Witness ==
    /\ gen = "done"
    /\ source = "Math.random"
    /\ sessionId[15] = "4" /\ sessionId[16] = "f"
    /\ sessionId[1] = "0"

\* the stated order of preference, and whether a keyed structure holds a
\* string under a name
PreferredOrder == <<"output", "reply", "message", "content", "text", "result">>
StringUnder(v, k) ==
    \E j \in 1..Len(v.items) : v.items[j].k = k /\ v.items[j].val.t = "string"
ValueUnder(v, k) ==
    v.items[CHOOSE j \in 1..Len(v.items) : v.items[j].k = k].val

\* C11: for a keyed payload, extractText returns the string under the first
\* of output, reply, message, content, text, result that holds a string; a
\* preferred key holding an object, an array, a number or null is passed
\* over, never searched; with no string under a preferred key the result is
\* undefined.
C11_FirstPreferredString ==
    (extracted # <<>> /\ data.t = "object")
       => LET holding == {i \in 1..Len(PreferredOrder) : StringUnder(data, PreferredOrder[i])}
          IN  IF holding = {} THEN extracted[1] = Undefined
              ELSE \E i \in holding :
                      /\ \A h \in holding : i <= h
                      /\ extracted[1] = Str(ValueUnder(data, PreferredOrder[i]).s)

\* { output: { output: "hi" }, result: "hi" } gave the string under result
C11_Witness ==
    /\ extracted = <<Str(Hi)>>
    /\ data = JObject(<<Member("output", OutputHi), Member("result", JString(Hi))>>)

\* C12: a non-empty array gives what extractText gives for its first
\* element, whatever the later elements are; a string is returned as it is;
\* an empty array, a number, a boolean and null give undefined; the call
\* always returns.
C12_FirstElementOnly ==
    extracted # <<>>
       => /\ extracted[1] = Undefined \/ (extracted[1].def /\ extracted[1] = Str(extracted[1].s))
          /\ data.t = "string" => extracted[1] = Str(data.s)
          /\ (data.t = "array" /\ data.items # <<>>)
                => /\ extracted[1] = extractText(data.items[1])
                   /\ data.items[1].t \notin {"string", "array", "object"}
                         => extracted[1] = Undefined
          /\ (data.t = "array" /\ data.items = <<>>) => extracted[1] = Undefined
          /\ data.t \notin {"string", "array", "object"} => extracted[1] = Undefined

\* [5, "hi"] gave undefined
C12_Witness ==
    /\ extracted = <<Undefined>>
    /\ data = JArray(<<JNumber("5"), JString(Hi)>>)


\* the escape entity of a character, and a text with every character
\* replaced by its entity
EntityOf(c) ==
    CASE c = "&" -> <<"&", "a", "m", "p", ";">>
      [] c = "<" -> <<"&", "l", "t", ";">>
      [] c = ">" -> <<"&", "g", "t", ";">>
      [] c = "\"" -> <<"&", "q", "u", "o", "t", ";">>
      [] c = "'" -> <<"&", "#", "0", "3", "9", ";">>
      [] OTHER -> <<c>>
RECURSIVE Escaped(_)
Escaped(s) == IF s = <<>> THEN <<>> ELSE EntityOf(Head(s)) \o Escaped(Tail(s))
EscapedBlock(s) ==
    <<"<", "pre", ">", "\n">> \o Escaped(s) \o <<"\n", "<", "/", "pre", ">">>
Contains(s, part) ==
    \E i \in 0..(Len(s) - Len(part)) : SubSeq(s, i + 1, i + Len(part)) = part
ScriptText == <<"<", "script", ">", "alert(1)", "<", "/", "script", ">">>
ImgText == <<"<", "img", " ", "onerror=alert(1)", ">">>

\* C13: with neither the formatter nor the sanitizer ready, renderMarkdown
\* returns the text with each of & < > " ' replaced by its entity, inside a
\* pre block; the output depends on the text alone, so every call on the
\* same text returns the same output.
C13_FallbackEscapes ==
    (injected.called /\ ~injected.marked /\ ~injected.DOMPurify)
       => injected.html = EscapedBlock(injected.mdText)

\* "&lt;" was displayed with neither library ready: its "&" was escaped once
C13_Witness ==
    /\ injected.called /\ ~injected.marked /\ ~injected.DOMPurify
    /\ injected.mdText = <<"&", "l", "t", ";">>
    /\ injected.html = <<"<", "pre", ">", "\n", "&", "a", "m", "p", ";", "l", "t", ";",
                         "\n", "<", "/", "pre", ">">>

\* C14: when the formatter or the sanitizer throws, whatever is ready,
\* renderMarkdown still returns, and returns the escaped text in a pre block.
C14_ThrowGivesEscapedBlock ==
    (injected.called /\ injected.threw)
       => injected.html = EscapedBlock(injected.mdText)

\* the sanitizer threw on the formatter's output of a script element
C14_Witness ==
    /\ injected.called /\ injected.threw
    /\ injected.marked /\ injected.DOMPurify
    /\ injected.mdText = ScriptText
    /\ Contains(injected.html, <<"&", "l", "t", ";", "script">>)

\* C15: when the sanitizer is ready and nothing throws, what renderMarkdown
\* returns is the sanitizer's output for the formatter's markup, or for the
\* escaped block when the formatter is not ready.
C15_SanitizerAlwaysApplied ==
    (injected.called /\ injected.DOMPurify /\ ~injected.threw)
       => injected.html = sanitize(IF injected.marked
                                   THEN markedParse(injected.mdText)
                                   ELSE EscapedBlock(injected.mdText))

\* both libraries ready: the img element came out without its handler
C15_Witness ==
    /\ injected.called /\ injected.DOMPurify /\ injected.marked /\ ~injected.threw
    /\ injected.mdText = ImgText
    /\ injected.html = <<"<", "p", ">", "<", "img", ">", "<", "/", "p", ">", "\n">>

\* markup that runs script when injected: a script element, or an element
\* with an event-handler attribute
Executable(h) ==
    \E i \in 1..(Len(h) - 1) :
       /\ h[i] = "<"
       /\ \/ h[i + 1] = "script"
          \/ /\ h[i + 1] \in {"img", "b", "p", "pre", "br"}
             /\ \E j \in (i + 2)..Len(h) :
                   /\ h[j] = "onerror=alert(1)"
                   /\ \A k \in i..j : h[k] # ">"

\* C16: whatever is ready, the markup injected for a message is sanitized
\* markup or the escaped block, and never runs script: the formatter's
\* output is not injected unsanitized.
C16_InjectedMarkupIsSafe ==
    injected.called
       => /\ ~Executable(injected.html)
          /\ \/ injected.html = EscapedBlock(injected.mdText)
             \/ injected.html = sanitize(EscapedBlock(injected.mdText))
             \/ injected.html = sanitize(markedParse(injected.mdText))


\* an Enter keydown with this modifier held
Held(e, m) ==
    CASE m = "shiftKey" -> e.shiftKey
      [] m = "ctrlKey" -> e.ctrlKey
      [] m = "altKey" -> e.altKey
      [] m = "metaKey" -> e.metaKey
PlainEnter ==
    [key |-> "Enter", shiftKey |-> FALSE, ctrlKey |-> FALSE, altKey |-> FALSE,
     metaKey |-> FALSE]

\* C17 as stated: for each of Shift, Ctrl, Alt and Meta, an Enter keydown
\* with it held does not submit: the log, pending and lastError stay as they
\* are.
C17_ModifierEnterNeverSubmits ==
    [][\A e \in KeyEvents, m \in {"shiftKey", "ctrlKey", "altKey", "metaKey"} :
          (e.key = "Enter" /\ Held(e, m) /\ keyDown(e))
             => UNCHANGED <<messages, loading, errorText>>]_vars

\* C17: an Enter keydown with Shift held never submits (the log, pending,
\* lastError, the draft and the calls stay as they are); an Enter keydown
\* with Ctrl, Alt or Meta held and Shift not held does what a plain Enter
\* does.
C17_ShiftEnterNeverSubmits ==
    [][\A e \in KeyEvents :
          /\ (e.key = "Enter" /\ e.shiftKey /\ keyDown(e))
                => UNCHANGED <<messages, loading, errorText, input, calls>>
          /\ (e.key = "Enter" /\ ~e.shiftKey /\ keyDown(e))
                => keyDown(PlainEnter)]_vars

\* Shift+Enter was pressed on a draft that a plain Enter would have sent
C17_Witness ==
    /\ last.op = "newline"
    /\ HasText(view.input)
    /\ ~view.loading
    /\ ~loading
    /\ messages = <<>>


\* C18: lastError is empty from the step that accepts a submit until the
\* call settles, and a call that settles with success leaves it empty, also
\* when the submit before it failed.
C18_ErrorClearedOnSend ==
    /\ [](loading => errorText = <<>>)
    /\ [][(last'.op \in {"submit", "quick"} /\ loading') => errorText' = <<>>]_vars
    /\ [][(calls # <<>> /\ calls' # calls /\ Succeeded(calls[1]))
             => errorText' = <<>>]_vars

\* the first submit failed, the second succeeded: lastError is empty again
C18_Witness ==
    /\ Len(messages) = 4
    /\ IsApology(messages[2].content)
    /\ ~IsApology(messages[4].content)
    /\ ~loading
    /\ errorText = <<>>

\* the body of a call has been read as text: the response did not declare
\* JSON and the read did not fail
ReadAsText(c) ==
    /\ c.pc = "body"
    /\ ~c.result.bodyFails
    /\ ~includes(c.result.contentType, "application/json")

\* C19: a response of success status that does not declare JSON, once its
\* text is read, is answered with a reply, never with the apology: the
\* extracted string when the text parses as JSON and the extractor finds
\* one, the raw text when it parses and the extractor finds none, and the
\* raw text when it does not parse.
C19_TextBodyNeverFails ==
    [][(calls # <<>> /\ calls' # calls /\ ReadAsText(calls[1]))
          => LET raw == calls[1].result.body
                 maybe == JSONparse(raw)
             IN  /\ messages' =
                       Append(messages,
                              [role |-> "assistant",
                               content |-> IF maybe.ok /\ extractText(maybe.value).def
                                           THEN extractText(maybe.value).s
                                           ELSE raw])
                 /\ errorText' = <<>>
                 /\ ~loading'
                 /\ calls' = <<>>]_vars

\* text/plain " {"foo":"hi"} \n" was answered with that raw text
C19_Witness ==
    /\ last.op = "settle"
    /\ ~loading
    /\ errorText = <<>>
    /\ messages # <<>>
    /\ LastMessage.content = <<" ">> \o stringify(FooOnly) \o <<"\n">>

\* C20: the log alternates user, assistant, user, ... from a user Message;
\* with pending false its length is even; with pending true its length is
\* odd and its last Message is the user Message of the request in flight,
\* with the content that request carries.
C20_LogAlternates ==
    /\ \A i \in 1..Len(messages) :
          messages[i].role = IF i % 2 = 1 THEN "user" ELSE "assistant"
    /\ ~loading => Len(messages) % 2 = 0
    /\ loading => /\ Len(messages) % 2 = 1
                  /\ Len(calls) = 1
                  /\ LastMessage.role = "user"
                  /\ LastMessage.content = calls[1].payload.message

\* the second request is in flight after the first was answered
C20_Witness ==
    /\ loading
    /\ Len(messages) = 3
    /\ calls # <<>>
    /\ messages[3].content = calls[1].payload.message
    /\ messages[2].role = "assistant"


\* the reply a call is answered with, read from the call alone
ReplyTo(c) ==
    IF NetworkFailed(c) THEN <<Apology>> \o c.result.message
    ELSE IF BadStatus(c)
    THEN <<Apology, "Request failed (">> \o toDecimal(c.result.status) \o <<" ">>
         \o c.result.statusText \o <<")">>
    ELSE IF UnparsableJson(c) THEN <<Apology>> \o JSONparse(c.result.body).message
    ELSE IF extractText(Payload(c)).def THEN extractText(Payload(c)).s
    ELSE IF DeclaredJson(c.result) THEN stringify(Payload(c))
    ELSE c.result.body

\* C21: an edit of the draft sets the draft and leaves the log, pending,
\* lastError and the calls as they are; while a request is in flight the
\* message it carries and the log do not change, whatever is typed, and the
\* request is answered with one assistant Message read from the request and
\* its response alone; an accepted submit leaves the draft empty.
C21_DraftEditsOnlyDraft ==
    [][/\ \A value \in DraftTexts :
             change(value) => /\ input' = value
                              /\ UNCHANGED <<messages, loading, errorText, calls>>
       /\ (calls # <<>> /\ calls' # <<>>)
             => /\ calls'[1].payload = calls[1].payload
                /\ messages' = messages
                /\ LastMessage.content = calls[1].payload.message
       /\ (calls # <<>> /\ calls' = <<>>)
             => messages' = Append(messages, [role |-> "assistant", content |-> ReplyTo(calls[1])])
       /\ (last'.op \in {"submit", "quick"} /\ ~loading /\ loading')
             => /\ input' = <<>>
                /\ calls'[1].payload.message = LastMessage'.content]_vars

\* "a b" was typed while the request of a suggested prompt was in flight:
\* the request was answered and the draft is still there
C21_Witness ==
    /\ last.op = "settle"
    /\ ~loading
    /\ Len(messages) = 2
    /\ messages[1].content \in suggestedPrompts
    /\ input = <<"a", " ", "b">>


====
